---- MODULE Spec2Model ----
(***************************************************************************)
(* Model of scripts/validate_package.py: the phase-based package           *)
(* validation (env, build, check, test, clean, all), the per-package venv  *)
(* and dist directories, the root dist/ pool and constraints-validate.txt. *)
(*                                                                         *)
(* Strings are sequences of tokens: the separator characters "-", "_",     *)
(* ".", ":", " " are tokens of their own, every other token is a fragment  *)
(* that contains no separator.  str.replace, str.split, str.strip and      *)
(* Path.glob are computed on that representation.                          *)
(***************************************************************************)
EXTENDS Integers, Sequences, FiniteSets, TLC

VARIABLES venv, dist, pool, pins, args, pc, log, calls, exit_code, runs, builds, release

vars == <<venv, dist, pool, pins, args, pc, log, calls, exit_code, runs, builds, release>>

(***************************************************************************)
(* Bounds of the model.                                                    *)
(***************************************************************************)
\* number of script invocations explored
MaxRuns == 2
\* versions 1.0 .. MaxVersion.0 that the sources of a package can be at
MaxVersion == 2

(***************************************************************************)
(* String helpers (Python str methods on token sequences).                 *)
(***************************************************************************)
\* s.replace(old, new) for a one-character old and new
Replace(s, old, new) == [i \in 1..Len(s) |-> IF s[i] = old THEN new ELSE s[i]]

\* index of the first occurrence of token t in s, 0 when absent
IndexOf(s, t) ==
    IF \E i \in 1..Len(s) : s[i] = t
    THEN CHOOSE i \in 1..Len(s) : s[i] = t /\ \A j \in 1..(i - 1) : s[j] # t
    ELSE 0

RECURSIVE Split(_, _)
\* s.split(sep)
Split(s, sep) ==
    IF IndexOf(s, sep) = 0
    THEN <<s>>
    ELSE <<SubSeq(s, 1, IndexOf(s, sep) - 1)>>
         \o Split(SubSeq(s, IndexOf(s, sep) + 1, Len(s)), sep)

RECURSIVE Strip(_)
\* s.strip()
Strip(s) ==
    IF s = <<>> THEN s
    ELSE IF Head(s) = " " THEN Strip(Tail(s))
    ELSE IF s[Len(s)] = " " THEN Strip(SubSeq(s, 1, Len(s) - 1))
    ELSE s

\* Path.glob(prefix + "*" + suffix) applied to one file name
GlobMatch(name, prefix, suffix) ==
    /\ Len(name) >= Len(prefix) + Len(suffix)
    /\ SubSeq(name, 1, Len(prefix)) = prefix
    /\ SubSeq(name, Len(name) - Len(suffix) + 1, Len(name)) = suffix

(***************************************************************************)
(* Packages, versions and artifacts.                                       *)
(***************************************************************************)
\* directories that exist under sources/
SourcePackages == {<<"foo">>, <<"n", ".", "x">>}

\* names that can be given on the command line
PackageNames == SourcePackages \cup {<<"ghost">>}

Versions == {<<ToString(n), ".", "0">> : n \in 1..MaxVersion}

Kinds == {"wheel", "sdist"}

\* file name the build backend gives the wheel of package p at version v
WheelName(p, v) ==
    Replace(p, ".", "_") \o <<"-">> \o v
        \o <<"-", "py3", "-", "none", "-", "any", ".whl">>

\* file name the build backend gives the sdist of package p at version v
SdistName(p, v) == Replace(p, ".", "_") \o <<"-">> \o v \o <<".tar.gz">>

\* a built distribution file: its name, and what it is a build of
Artifact(p, v, k) ==
    [pkg |-> p, version |-> v, kind |-> k,
     name |-> IF k = "wheel" THEN WheelName(p, v) ELSE SdistName(p, v)]

Artifacts == {Artifact(p, v, k) : p \in SourcePackages, v \in Versions, k \in Kinds}

NoFile == <<>>

NoVenv == [exists |-> FALSE, python |-> FALSE, tools |-> FALSE, installed |-> NoFile]

NoDir == [exists |-> FALSE, files |-> {}]

(***************************************************************************)
(* What a phase function hands back: its return value (Raised when an      *)
(* exception leaves it), the files it leaves on disk, and the external     *)
(* commands it ran through run_command, in order, with their success; for  *)
(* phase_clean, whose commands are its two guarded rmtree calls, these.     *)
(***************************************************************************)
\* marks a phase left by an exception other than ValidationError
Raised == -1

Call(tool, ok) == [tool |-> tool, ok |-> ok]

\* a command whose captured stdout the phase reads
CallOut(tool, ok, stdout) == [tool |-> tool, ok |-> ok, stdout |-> stdout]

Out(r, vn, ds, pl, pn, cs) ==
    [result |-> r, venv |-> vn, dist |-> ds, pool |-> pl, pins |-> pn, calls |-> cs]

\* the venv path does not depend on the package
SetVenvOfAll(p, val) == [q \in SourcePackages |-> val]

SetVenv(p, val) == [venv EXCEPT ![p] = val]

SetDist(p, val) == [dist EXCEPT ![p] = val]

\* a phase that needs the venv looks at the wrong directory
VenvMissingWrongPath(package) == package \notin SourcePackages

\* if not venv_path.exists()
VenvMissing(package) == ~venv[package].exists

\* the check phase does not look for the dist directory
DistMissingNever(package) == FALSE

\* if not dist_dir.exists()
DistMissing(package) == ~dist[package].exists

(***************************************************************************)
(* phase_env                                                               *)
(***************************************************************************)
\* outcomes of the environment: rmtree, python -m venv, pip
EnvInputs ==
    [rm_ok : BOOLEAN, venv_ok : BOOLEAN, partial : BOOLEAN,
     python_made : BOOLEAN, pip_ok : BOOLEAN, tools_ok : BOOLEAN]

\* python -m venv runs over the old directory, which was not removed
CreatedVenvOverExisting(package) ==
    [exists |-> TRUE, python |-> TRUE, tools |-> venv[package].tools,
     installed |-> venv[package].installed]

\* the env phase also installs the package, from its sources
CreatedVenvWithPackage(package) ==
    [exists |-> TRUE, python |-> TRUE, tools |-> FALSE, installed |-> <<"editable">>]

\* the venv python -m venv creates after the old one was removed
CreatedVenv(package) ==
    [exists |-> TRUE, python |-> TRUE, tools |-> FALSE, installed |-> NoFile]

phase_env(package, e) ==
    LET bare == CreatedVenv(package)
        c1 == <<Call("venv", e.venv_ok)>>
        c2 == c1 \o <<Call("pip_upgrade", e.pip_ok)>>
        c3 == c2 \o <<Call("pip_install_tools", e.tools_ok)>>
    IN  IF venv[package].exists /\ ~e.rm_ok
        THEN Out(Raised, venv, dist, pool, pins, <<>>)
        ELSE IF ~e.venv_ok
        THEN Out(1, SetVenv(package, [NoVenv EXCEPT !.exists = e.partial]),
                 dist, pool, pins, c1)
        ELSE IF ~e.python_made
        THEN Out(1, SetVenv(package, [NoVenv EXCEPT !.exists = TRUE]),
                 dist, pool, pins, c1)
        ELSE IF ~e.pip_ok
        THEN Out(1, SetVenv(package, bare), dist, pool, pins, c2)
        ELSE IF ~e.tools_ok
        THEN Out(1, SetVenv(package, bare), dist, pool, pins, c3)
        ELSE Out(0, SetVenv(package, [bare EXCEPT !.tools = TRUE]),
                 dist, pool, pins, c3)

(***************************************************************************)
(* phase_build                                                             *)
(***************************************************************************)
\* outcomes of the environment: rmtree, the build backend, shutil.copy2
BuildInputs ==
    [rm_ok : BOOLEAN, build_ok : BOOLEAN, version : Versions,
     made_dir : BOOLEAN, kinds : SUBSET Kinds,
     copy_wheel_ok : BOOLEAN, copy_sdist_ok : BOOLEAN]

\* root_dist.glob("*.whl") / dist_dir.glob("*.whl")
GlobWheels(dir) == {f \in dir.files : GlobMatch(f.name, <<>>, <<".whl">>)}

\* the sdist pattern matches every file of the directory
GlobSdistsAnyFile(dir) == dir.files

\* dist_dir.glob("*.tar.gz")
GlobSdists(dir) == {f \in dir.files : GlobMatch(f.name, <<>>, <<".tar.gz">>)}

\* the version is taken one field too far to the right
constraint_line_off_by_one(name) ==
    LET parts == Split(name, "-")
    IN  Replace(parts[1], "_", "-") \o <<"==">> \o parts[3]

\* the line written for one wheel of root dist/
constraint_line(name) ==
    LET parts == Split(name, "-")
    IN  Replace(parts[1], "_", "-") \o <<"==">> \o parts[2]

\* the file is opened with "w" and closed without a line written
generate_constraints_no_lines(root_dist) == [exists |-> TRUE, lines |-> {}]

\* constraints-validate.txt, opened with "w" and written from root dist/
generate_constraints(root_dist) ==
    [exists |-> TRUE,
     lines |-> {constraint_line(whl.name) : whl \in GlobWheels(root_dist)}]

\* the backend writes into the dist directory of the previous build
BuildOutputOverStale(package, e) ==
    IF venv[package].tools /\ e.made_dir
    THEN [exists |-> TRUE,
          files |-> dist[package].files
                    \cup {Artifact(package, e.version, k) : k \in e.kinds}]
    ELSE dist[package]

\* what python -m build leaves in sources/<package>/dist
BuildOutput(package, e) ==
    IF venv[package].tools /\ e.made_dir
    THEN [exists |-> TRUE,
          files |-> {Artifact(package, e.version, k) : k \in e.kinds}]
    ELSE NoDir

\* root dist/ is emptied before the two files are copied into it
CopyToRootDistReplacing(root_dist, wheel_file, sdist_file, e) ==
    IF ~e.copy_wheel_ok THEN [root_dist EXCEPT !.files = {}]
    ELSE IF ~e.copy_sdist_ok
    THEN [root_dist EXCEPT !.files = {wheel_file}]
    ELSE [root_dist EXCEPT !.files = {wheel_file, sdist_file}]

\* shutil.copy2 of the wheel, then of the sdist, into root dist/
CopyToRootDist(root_dist, wheel_file, sdist_file, e) ==
    IF ~e.copy_wheel_ok THEN root_dist
    ELSE IF ~e.copy_sdist_ok
    THEN [root_dist EXCEPT !.files = @ \cup {wheel_file}]
    ELSE [root_dist EXCEPT !.files = @ \cup {wheel_file, sdist_file}]

\* the artifacts are moved to root dist/, not copied
phase_build_moves(package, e) ==
    LET built == BuildOutput(package, e)
        ok == e.build_ok /\ venv[package].tools
        dist1 == SetDist(package, built)
        c1 == <<Call("build", ok)>>
        wheels == GlobWheels(built)
        sdists == GlobSdists(built)
        root_dist == [pool EXCEPT !.exists = TRUE]
    IN  IF VenvMissing(package)
        THEN Out(2, venv, dist, pool, pins, <<>>)
        ELSE IF ~venv[package].python
        THEN Out(2, venv, dist, pool, pins, <<>>)
        ELSE IF dist[package].exists /\ ~e.rm_ok
        THEN Out(Raised, venv, dist, pool, pins, <<>>)
        ELSE IF ~ok
        THEN Out(1, venv, dist1, pool, pins, c1)
        ELSE IF ~built.exists \/ built.files = {}
        THEN Out(1, venv, dist1, pool, pins, c1)
        ELSE IF wheels = {}
        THEN Out(1, venv, dist1, pool, pins, c1)
        ELSE IF sdists = {}
        THEN Out(1, venv, dist1, pool, pins, c1)
        ELSE LET wheel_file == CHOOSE f \in wheels : TRUE
                 sdist_file == CHOOSE f \in sdists : TRUE
                 copied == CopyToRootDist(root_dist, wheel_file, sdist_file, e)
             IN  IF ~(e.copy_wheel_ok /\ e.copy_sdist_ok)
                 THEN Out(1, venv, dist1, copied, pins, c1)
                 ELSE Out(0, venv, SetDist(package, [exists |-> TRUE, files |-> {}]),
                          copied, generate_constraints(copied), c1)

phase_build(package, e) ==
    LET built == BuildOutput(package, e)
        ok == e.build_ok /\ venv[package].tools
        dist1 == SetDist(package, built)
        c1 == <<Call("build", ok)>>
        wheels == GlobWheels(built)
        sdists == GlobSdists(built)
        root_dist == [pool EXCEPT !.exists = TRUE]
    IN  IF VenvMissing(package)
        THEN Out(2, venv, dist, pool, pins, <<>>)
        ELSE IF ~venv[package].python
        THEN Out(2, venv, dist, pool, pins, <<>>)
        ELSE IF dist[package].exists /\ ~e.rm_ok
        THEN Out(Raised, venv, dist, pool, pins, <<>>)
        ELSE IF ~ok
        THEN Out(1, venv, dist1, pool, pins, c1)
        ELSE IF ~built.exists \/ built.files = {}
        THEN Out(1, venv, dist1, pool, pins, c1)
        ELSE IF wheels = {}
        THEN Out(1, venv, dist1, pool, pins, c1)
        ELSE IF sdists = {}
        THEN Out(1, venv, dist1, pool, pins, c1)
        ELSE LET wheel_file == CHOOSE f \in wheels : TRUE
                 sdist_file == CHOOSE f \in sdists : TRUE
                 copied == CopyToRootDist(root_dist, wheel_file, sdist_file, e)
             IN  IF ~(e.copy_wheel_ok /\ e.copy_sdist_ok)
                 THEN Out(1, venv, dist1, copied, pins, c1)
                 ELSE Out(0, venv, dist1, copied,
                          generate_constraints(copied), c1)

(***************************************************************************)
(* phase_check                                                             *)
(***************************************************************************)
\* str.lower() of one token
LowerToken(t) ==
    IF t \in {"Rating", "RATING"} THEN "rating"
    ELSE IF t = "Final" THEN "final"
    ELSE t

Lower(line) == [i \in 1..Len(line) |-> LowerToken(line[i])]

\* the substring test  sub in line
Contains(line, sub) ==
    \E i \in 1..(Len(line) - Len(sub) + 1) : SubSeq(line, i, i + Len(sub) - 1) = sub

\* tokens int() accepts, and their values
Numerals == {ToString(n) : n \in 0..10}

IntOf(tok) == CHOOSE n \in 0..10 : ToString(n) = tok

\* a rating field that is no number counts as a score of 0
parse_line_zero_on_error(line, score) ==
    IF Contains(Lower(line), <<"rating", ":">>) /\ Contains(line, <<"/10">>)
    THEN LET field == Strip(Split(Split(line, ":")[2], "/10")[1])
         IN  IF Len(field) = 1 /\ field[1] \in Numerals
             THEN <<IntOf(field[1])>>
             ELSE <<0>>
    ELSE score

\* the score after one line of pyroma's output; <<>> is None
parse_line(line, score) ==
    IF Contains(Lower(line), <<"rating", ":">>) /\ Contains(line, <<"/10">>)
    THEN LET field == Strip(Split(Split(line, ":")[2], "/10")[1])
         IN  IF Len(field) = 1 /\ field[1] \in Numerals
             THEN <<IntOf(field[1])>>
             ELSE score
    ELSE score

RECURSIVE parse_score(_, _)
\* the loop over output.split("\n")
parse_score(lines, score) ==
    IF lines = <<>> THEN score
    ELSE parse_score(Tail(lines), parse_line(Head(lines), score))

RatingLine(n) == <<"Final", " ", "rating", ":", " ", ToString(n), "/10">>

\* outputs of pyroma the model draws from
PyromaOutputs ==
    {<<<<"Checking", " ", ".">>, RatingLine(n), <<"Cottage", " ", "Cheese">>>> :
        n \in {6, 8}}
    \cup {<<<<"Checking", " ", ".">>>>,
          <<<<"Note", ":", " ", "rating", ":", " ", "6", "/10">>>>,
          <<<<"Your", " ", "Rating", ":", " ", "n/a", "/10">>>>}

Thresholds == {5, 8}

\* outcomes of the environment: twine, pyroma
CheckInputs == [twine_ok : BOOLEAN, pyroma_ok : BOOLEAN, output : PyromaOutputs]

\* a score equal to the threshold fails
PyromaResultExclusive(pyroma_threshold, ok, output) ==
    LET score == parse_score(output, <<>>)
    IN  IF ~ok THEN 0
        ELSE IF score # <<>> /\ score[1] <= pyroma_threshold THEN 1
        ELSE 0

\* a failing pyroma run fails the phase
PyromaResultStrict(pyroma_threshold, ok, output) ==
    LET score == parse_score(output, <<>>)
    IN  IF ~ok THEN 1
        ELSE IF score # <<>> /\ score[1] < pyroma_threshold THEN 1
        ELSE 0

\* the pyroma step of phase_check: the value it makes the phase return
PyromaResult(pyroma_threshold, ok, output) ==
    LET score == parse_score(output, <<>>)
    IN  IF ~ok THEN 0
        ELSE IF score # <<>> /\ score[1] < pyroma_threshold THEN 1
        ELSE 0

\* a failing check removes the venv and the dist directory it looked at
phase_check_removes_on_failure(package, pyroma_threshold, e) ==
    LET twine_ok == e.twine_ok /\ venv[package].tools
        pyroma_ok == e.pyroma_ok /\ venv[package].tools
        c1 == <<Call("twine", twine_ok)>>
        c2 == c1 \o <<CallOut("pyroma", pyroma_ok, e.output)>>
        r == PyromaResult(pyroma_threshold, pyroma_ok, e.output)
    IN  IF VenvMissing(package)
        THEN Out(2, venv, dist, pool, pins, <<>>)
        ELSE IF DistMissing(package)
        THEN Out(2, venv, dist, pool, pins, <<>>)
        ELSE IF ~venv[package].python
        THEN Out(Raised, venv, dist, pool, pins, <<>>)
        ELSE IF ~twine_ok
        THEN Out(1, SetVenv(package, NoVenv), SetDist(package, NoDir),
                 pool, pins, c1)
        ELSE IF r # 0
        THEN Out(r, SetVenv(package, NoVenv), SetDist(package, NoDir),
                 pool, pins, c2)
        ELSE Out(r, venv, dist, pool, pins, c2)

\* pyroma runs even after twine check failed
phase_check_no_short_circuit(package, pyroma_threshold, e) ==
    LET twine_ok == e.twine_ok /\ venv[package].tools
        pyroma_ok == e.pyroma_ok /\ venv[package].tools
        c2 == <<Call("twine", twine_ok), CallOut("pyroma", pyroma_ok, e.output)>>
    IN  IF VenvMissing(package)
        THEN Out(2, venv, dist, pool, pins, <<>>)
        ELSE IF DistMissing(package)
        THEN Out(2, venv, dist, pool, pins, <<>>)
        ELSE IF ~venv[package].python
        THEN Out(Raised, venv, dist, pool, pins, <<>>)
        ELSE Out(IF ~twine_ok THEN 1
                 ELSE PyromaResult(pyroma_threshold, pyroma_ok, e.output),
                 venv, dist, pool, pins, c2)

phase_check(package, pyroma_threshold, e) ==
    LET twine_ok == e.twine_ok /\ venv[package].tools
        pyroma_ok == e.pyroma_ok /\ venv[package].tools
        c1 == <<Call("twine", twine_ok)>>
        c2 == c1 \o <<CallOut("pyroma", pyroma_ok, e.output)>>
    IN  IF VenvMissing(package)
        THEN Out(2, venv, dist, pool, pins, <<>>)
        ELSE IF DistMissing(package)
        THEN Out(2, venv, dist, pool, pins, <<>>)
        ELSE IF ~venv[package].python
        THEN Out(Raised, venv, dist, pool, pins, <<>>)
        ELSE IF ~twine_ok
        THEN Out(1, venv, dist, pool, pins, c1)
        ELSE Out(PyromaResult(pyroma_threshold, pyroma_ok, e.output),
                 venv, dist, pool, pins, c2)

(***************************************************************************)
(* phase_test                                                              *)
(***************************************************************************)
\* the pattern does not depend on the artifact type
find_artifact_any_kind(package, artifact_type) ==
    {f \in pool.files : GlobMatch(f.name, Replace(package, ".", "_") \o <<"-">>, <<>>)}

\* the pattern does not start with the package's name
find_artifact_any_package(package, artifact_type) ==
    LET suffix == IF artifact_type = "wheel" THEN <<".whl">> ELSE <<".tar.gz">>
    IN  {f \in pool.files : GlobMatch(f.name, <<>>, suffix)}

\* the artifact is looked for in the dist directory of the package
find_artifact_in_package_dist(package, artifact_type) ==
    LET package_normalized == Replace(package, ".", "_")
        suffix == IF artifact_type = "wheel" THEN <<".whl">> ELSE <<".tar.gz">>
    IN  {f \in dist[package].files :
            GlobMatch(f.name, package_normalized \o <<"-">>, suffix)}

\* root_dist.glob(pattern) of find_artifact
find_artifact(package, artifact_type) ==
    LET package_normalized == Replace(package, ".", "_")
        suffix == IF artifact_type = "wheel" THEN <<".whl">> ELSE <<".tar.gz">>
    IN  {f \in pool.files : GlobMatch(f.name, package_normalized \o <<"-">>, suffix)}

\* outcomes of the environment: the order of glob, pip install, pytest
TestInputs == [first : Artifacts, install_ok : BOOLEAN, pytest_ok : BOOLEAN]

phase_test(package, install_from, e) ==
    LET artifacts == find_artifact(package, install_from)
        c1 == <<Call("pip_install", e.install_ok)>>
        c2 == c1 \o <<Call("pytest", e.pytest_ok)>>
        installed == SetVenv(package, [venv[package] EXCEPT !.installed = e.first.name])
    IN  IF VenvMissing(package)
        THEN Out(2, venv, dist, pool, pins, <<>>)
        ELSE IF artifacts = {}
        THEN Out(2, venv, dist, pool, pins, <<>>)
        ELSE IF ~venv[package].python
        THEN Out(Raised, venv, dist, pool, pins, <<>>)
        ELSE IF ~e.install_ok
        THEN Out(1, venv, dist, pool, pins, c1)
        ELSE IF ~e.pytest_ok
        THEN Out(1, installed, dist, pool, pins, c2)
        ELSE Out(0, installed, dist, pool, pins, c2)

(***************************************************************************)
(* The pip install command of phase_test: --find-links root dist/, --pre,  *)
(* --upgrade, -c constraints-validate.txt, <artifact>[test].  pip installs *)
(* the requirements of the artifact too; for each it may take a file of    *)
(* the find-links directory or a release of the package index, and only a  *)
(* version that every line of the constraints file for that project allows.*)
(***************************************************************************)
\* the packages of the repository a package requires
Requires(p) == IF p = <<"foo">> THEN {<<"n", ".", "x">>} ELSE {}

\* releases of a package on the index; the sources are at later,
\* unreleased versions
PublishedVersions == {<<"0", ".", "9">>}

\* the project name as pip compares it
CanonicalName(name) == Replace(Replace(name, ".", "-"), "_", "-")

\* project and version pip reads off the file name of a distribution
FileProject(name) == Split(name, "-")[1]

FileVersion(name) ==
    LET field == Split(name, "-")[2]
    IN  IF field[Len(field)] = ".tar.gz"
        THEN SubSeq(field, 1, Len(field) - 1)
        ELSE field

\* the versions the lines of the constraints file allow for a project
Pinned(project, constraints) ==
    {Split(line, "==")[2] :
        line \in {l \in constraints.lines :
                    CanonicalName(Split(l, "==")[1]) = CanonicalName(project)}}

\* what pip may install for the requirement  project
PipCandidates(project, find_links, constraints) ==
    LET local == {[version |-> FileVersion(f.name), origin |-> "find-links"] :
                    f \in {g \in find_links.files :
                            CanonicalName(FileProject(g.name))
                                = CanonicalName(project)}}
        index == {[version |-> v, origin |-> "index"] : v \in PublishedVersions}
    IN  {c \in local \cup index :
            \A v \in Pinned(project, constraints) : c.version = v}

(***************************************************************************)
(* phase_clean                                                             *)
(***************************************************************************)
\* outcomes of the environment: the two rmtree calls
CleanInputs == [rm_venv_ok : BOOLEAN, rm_dist_ok : BOOLEAN]

\* the clean phase also removes the generated constraints file
phase_clean_removes_constraints(package, e) ==
    LET venv1 == IF venv[package].exists /\ e.rm_venv_ok
                 THEN SetVenv(package, NoVenv) ELSE venv
        dist1 == IF dist[package].exists /\ e.rm_dist_ok
                 THEN SetDist(package, NoDir) ELSE dist
    IN  Out(0, venv1, dist1, pool, [exists |-> FALSE, lines |-> {}], <<>>)

\* a removal that fails makes the clean phase fail
phase_clean_propagates(package, e) ==
    LET venv1 == IF venv[package].exists /\ e.rm_venv_ok
                 THEN SetVenv(package, NoVenv) ELSE venv
        dist1 == IF dist[package].exists /\ e.rm_dist_ok
                 THEN SetDist(package, NoDir) ELSE dist
    IN  Out(IF (venv[package].exists /\ ~e.rm_venv_ok)
               \/ (dist[package].exists /\ ~e.rm_dist_ok) THEN 1 ELSE 0,
            venv1, dist1, pool, pins, <<>>)

\* the rmtree calls of phase_clean: one for each directory that exists
Removals(package, e) ==
    (IF venv[package].exists THEN <<Call("rmtree_venv", e.rm_venv_ok)>> ELSE <<>>)
    \o (IF dist[package].exists THEN <<Call("rmtree_dist", e.rm_dist_ok)>> ELSE <<>>)

\* the dist directory is looked at and reported, but not removed
phase_clean_keeps_dist(package, e) ==
    LET venv1 == IF venv[package].exists /\ e.rm_venv_ok
                 THEN SetVenv(package, NoVenv) ELSE venv
    IN  Out(0, venv1, dist, pool, pins, Removals(package, e))

phase_clean(package, e) ==
    LET venv1 == IF venv[package].exists /\ e.rm_venv_ok
                 THEN SetVenv(package, NoVenv) ELSE venv
        dist1 == IF dist[package].exists /\ e.rm_dist_ok
                 THEN SetDist(package, NoDir) ELSE dist
    IN  Out(0, venv1, dist1, pool, pins, Removals(package, e))

(***************************************************************************)
(* main                                                                    *)
(***************************************************************************)
\* the phases of --all, in the order of the list main builds
Phases == <<"env", "build", "check", "test", "clean">>

Modes == {"env", "build", "check", "test", "clean", "all"}

\* command lines: an option a phase does not read is left at its default
CommandLines ==
    {a \in [package : PackageNames, phase : Modes,
            pyroma_threshold : Thresholds, install_from : Kinds] :
        /\ a.phase \notin {"check", "all"} => a.pyroma_threshold = 8
        /\ a.phase \notin {"test", "all"} => a.install_from = "wheel"}

\* the phase main runs next
CurrentPhase == IF args.phase = "all" THEN Phases[Len(log) + 1] ELSE args.phase

Exited(code) == [pc |-> "exited", exit_code |-> <<code>>]

\* --all exits with the phase result as it is
ExitAllPassThrough(result) == result

\* the exit code --all gives a phase result other than 0
ExitAll(result) == IF result # 2 THEN result ELSE 1

\* --all looks at the phase results only after the last phase
AfterPhaseNoFailFast(result, n) ==
    IF result = Raised THEN Exited(2)
    ELSE IF args.phase = "all"
    THEN IF n = Len(Phases)
         THEN Exited(IF result # 0 THEN ExitAll(result) ELSE 0)
         ELSE [pc |-> "run", exit_code |-> <<>>]
    ELSE Exited(result)

\* a standalone phase gets the exit code mapping of --all
AfterPhaseStandaloneMapped(result, n) ==
    IF result = Raised THEN Exited(2)
    ELSE IF args.phase = "all"
    THEN IF result # 0 THEN Exited(ExitAll(result))
         ELSE IF n = Len(Phases) THEN Exited(0)
         ELSE [pc |-> "run", exit_code |-> <<>>]
    ELSE Exited(IF result # 0 THEN ExitAll(result) ELSE 0)

\* what main does with the value of the n-th phase it ran
AfterPhase(result, n) ==
    IF result = Raised THEN Exited(2)
    ELSE IF args.phase = "all"
    THEN IF result # 0 THEN Exited(ExitAll(result))
         ELSE IF n = Len(Phases) THEN Exited(0)
         ELSE [pc |-> "run", exit_code |-> <<>>]
    ELSE Exited(result)

\* a phase function has been called and main goes on with its value
Finish(phase, out) ==
    /\ venv' = out.venv
    /\ dist' = out.dist
    /\ pool' = out.pool
    /\ pins' = out.pins
    /\ calls' = out.calls
    /\ log' = Append(log, [phase |-> phase, result |-> out.result])
    /\ pc' = AfterPhase(out.result, Len(log) + 1).pc
    /\ exit_code' = AfterPhase(out.result, Len(log) + 1).exit_code
    /\ UNCHANGED <<args, runs, builds, release>>

\* the release script has not been started
NoRelease == [pc |-> "none", dirs |-> <<>>, argv |-> <<>>, to_release |-> <<>>,
              skipped |-> <<>>, released |-> <<>>, failed |-> <<>>,
              attempted |-> <<>>, cmds |-> <<>>, exit_code |-> <<>>]

\* no build phases of concurrently started scripts are under way
NoBuilds == [serial |-> TRUE, proc |-> <<>>, content |-> <<>>]

Init ==
    /\ venv = [p \in SourcePackages |-> NoVenv]
    /\ dist = [p \in SourcePackages |-> NoDir]
    /\ pool = NoDir
    /\ pins = [exists |-> FALSE, lines |-> {}]
    /\ args = [package |-> <<"foo">>, phase |-> "env",
               pyroma_threshold |-> 8, install_from |-> "wheel"]
    /\ pc = "idle"
    /\ log = <<>>
    /\ calls = <<>>
    /\ exit_code = <<>>
    /\ runs = 0
    /\ builds = NoBuilds
    /\ release = NoRelease

\* the script is started: argument parsing and the package directory check
Invoke ==
    /\ pc # "run"
    /\ runs < MaxRuns
    /\ \E a \in CommandLines :
        /\ args' = a
        /\ IF a.package \notin SourcePackages
           THEN pc' = "exited" /\ exit_code' = <<2>>
           ELSE pc' = "run" /\ exit_code' = <<>>
    /\ runs' = runs + 1
    /\ log' = <<>>
    /\ calls' = <<>>
    /\ UNCHANGED <<venv, dist, pool, pins, builds, release>>

RunEnv ==
    /\ pc = "run" /\ CurrentPhase = "env"
    /\ \E e \in EnvInputs : Finish("env", phase_env(args.package, e))

RunBuild ==
    /\ pc = "run" /\ CurrentPhase = "build"
    /\ \E e \in BuildInputs : Finish("build", phase_build(args.package, e))

RunCheck ==
    /\ pc = "run" /\ CurrentPhase = "check"
    /\ \E e \in CheckInputs :
        Finish("check", phase_check(args.package, args.pyroma_threshold, e))

RunTest ==
    /\ pc = "run" /\ CurrentPhase = "test"
    /\ \E e \in TestInputs :
        /\ \/ e.first \in find_artifact(args.package, args.install_from)
           \/ find_artifact(args.package, args.install_from) = {}
        /\ Finish("test", phase_test(args.package, args.install_from, e))

RunClean ==
    /\ pc = "run" /\ CurrentPhase = "clean"
    /\ \E e \in CleanInputs : Finish("clean", phase_clean(args.package, e))

Next == Invoke \/ RunEnv \/ RunBuild \/ RunCheck \/ RunTest \/ RunClean

Spec == Init /\ [][Next]_vars

(***************************************************************************)
(* Two invocations  <package> --env  in a row, from any state the venv of  *)
(* the package can be in; log keeps the values of both phase_env calls.    *)
(***************************************************************************)
\* the states sources/<p>/venv can be in
VenvStatesOf(p) ==
    {NoVenv, [NoVenv EXCEPT !.exists = TRUE]}
    \cup {[exists |-> TRUE, python |-> TRUE, tools |-> t, installed |-> i] :
            t \in BOOLEAN,
            i \in {NoFile} \cup {f.name : f \in {g \in Artifacts : g.pkg = p}}}

InitEnvTwice ==
    /\ venv \in {v \in [SourcePackages -> UNION {VenvStatesOf(p) : p \in SourcePackages}] :
                    \A p \in SourcePackages : v[p] \in VenvStatesOf(p)}
    /\ dist \in [SourcePackages -> {NoDir, [NoDir EXCEPT !.exists = TRUE]}]
    /\ pool = NoDir
    /\ pins = [exists |-> FALSE, lines |-> {}]
    /\ args \in {a \in CommandLines : a.phase = "env" /\ a.package \in SourcePackages}
    /\ pc = "run"
    /\ log = <<>>
    /\ calls = <<>>
    /\ exit_code = <<>>
    /\ runs = 1
    /\ builds = NoBuilds
    /\ release = NoRelease

\* the first invocation runs phase_env and exits with its value
EnvFirst ==
    /\ pc = "run" /\ log = <<>>
    /\ \E e \in EnvInputs : Finish("env", phase_env(args.package, e))

\* the script is started again with the same command line
EnvSecond ==
    /\ pc = "exited" /\ Len(log) = 1
    /\ \E e \in EnvInputs :
        LET out == phase_env(args.package, e)
        IN  /\ venv' = out.venv
            /\ dist' = out.dist
            /\ pool' = out.pool
            /\ pins' = out.pins
            /\ calls' = out.calls
            /\ log' = Append(log, [phase |-> "env", result |-> out.result])
            /\ pc' = AfterPhase(out.result, 1).pc
            /\ exit_code' = AfterPhase(out.result, 1).exit_code
    /\ runs' = runs + 1
    /\ UNCHANGED <<args, builds, release>>

NextEnvTwice == EnvFirst \/ EnvSecond

SpecEnvTwice == InitEnvTwice /\ [][NextEnvTwice]_vars

(***************************************************************************)
(* Two scripts  <package> --build  for different packages, started with    *)
(* the venvs in place, possibly at the same time.  The part of phase_build *)
(* up to the two copies is one step; the regeneration of                   *)
(* constraints-validate.txt is three: open(path, "w") truncates the file,  *)
(* the loop over root_dist.glob("*.whl") fills the buffer of the file      *)
(* object, and leaving the with block writes the buffer at the start of    *)
(* the file.  The lines of the packages of the model are equally long, so  *)
(* such a write replaces whole lines.  builds.serial tells whether the     *)
(* driver that starts the scripts waits for one to end before the next.    *)
(***************************************************************************)
\* the sequences without repetition of the elements of S
Orders(S) ==
    {q \in [1..Cardinality(S) -> S] :
        \A i, j \in 1..Cardinality(S) : i # j => q[i] # q[j]}

\* the pattern of the loop matches the sdists
BufferedLinesOfSdists(root_dist) ==
    Orders({constraint_line(f.name) : f \in GlobSdists(root_dist)})

\* what the loop can write to the buffer: a line for each wheel it finds in
\* root dist/, in the order the directory yields them
BufferedLines(root_dist) ==
    Orders({constraint_line(whl.name) : whl \in GlobWheels(root_dist)})

\* the content after the buffer was written at offset 0
WriteAtStart(content, buffer) ==
    buffer \o SubSeq(content, Len(buffer) + 1, Len(content))

\* the constraints file with the given lines
FileOf(content) ==
    [exists |-> TRUE, lines |-> {content[i] : i \in 1..Len(content)}]

ReadyVenv == [exists |-> TRUE, python |-> TRUE, tools |-> TRUE, installed |-> NoFile]

InitTwoBuilds ==
    /\ venv = [p \in SourcePackages |-> ReadyVenv]
    /\ dist = [p \in SourcePackages |-> NoDir]
    /\ pool = NoDir
    /\ pins = [exists |-> FALSE, lines |-> {}]
    /\ args = [package |-> <<"foo">>, phase |-> "build",
               pyroma_threshold |-> 8, install_from |-> "wheel"]
    /\ pc = "run"
    /\ log = <<>>
    /\ calls = <<>>
    /\ exit_code = <<>>
    /\ runs = 2
    /\ release = NoRelease
    /\ builds \in {[serial |-> b,
                    proc |-> [p \in SourcePackages |->
                                [pc |-> "start", buffer |-> <<>>, result |-> <<>>]],
                    content |-> <<>>] : b \in BOOLEAN}

\* the driver lets the script for p take a step
MayRun(p) ==
    builds.serial =>
        \A q \in SourcePackages \ {p} : builds.proc[q].pc \in {"start", "done"}

SetProc(p, at, buffer, result) ==
    [builds.proc EXCEPT ![p] = [pc |-> at, buffer |-> buffer, result |-> result]]

\* phase_build from its start to the copies into root dist/
BuildPromote(p) ==
    /\ builds.proc[p].pc = "start" /\ MayRun(p)
    /\ \E e \in BuildInputs :
        LET out == phase_build(p, e)
        IN  /\ venv' = out.venv
            /\ dist' = out.dist
            /\ pool' = out.pool
            /\ builds' = [builds EXCEPT !.proc =
                            IF out.result = 0
                            THEN SetProc(p, "open", <<>>, <<>>)
                            ELSE SetProc(p, "done", <<>>, <<out.result>>)]
    /\ UNCHANGED <<pins, args, pc, log, calls, exit_code, runs, release>>

\* with open(constraints_path, "w") as f
PinsOpen(p) ==
    /\ builds.proc[p].pc = "open" /\ MayRun(p)
    /\ builds' = [builds EXCEPT !.proc = SetProc(p, "write", <<>>, <<>>),
                                !.content = <<>>]
    /\ pins' = FileOf(<<>>)
    /\ UNCHANGED <<venv, dist, pool, args, pc, log, calls, exit_code, runs, release>>

\* for whl in root_dist.glob("*.whl"): ... f.write(...)
PinsWrite(p) ==
    /\ builds.proc[p].pc = "write" /\ MayRun(p)
    /\ \E b \in BufferedLines(pool) :
        builds' = [builds EXCEPT !.proc = SetProc(p, "close", b, <<>>)]
    /\ UNCHANGED <<venv, dist, pool, pins, args, pc, log, calls, exit_code, runs, release>>

\* the with block is left, the file is closed, and phase_build returns 0
PinsClose(p) ==
    /\ builds.proc[p].pc = "close" /\ MayRun(p)
    /\ LET written == WriteAtStart(builds.content, builds.proc[p].buffer)
       IN  /\ builds' = [builds EXCEPT !.proc = SetProc(p, "done", <<>>, <<0>>),
                                       !.content = written]
           /\ pins' = FileOf(written)
    /\ UNCHANGED <<venv, dist, pool, args, pc, log, calls, exit_code, runs, release>>

NextTwoBuilds ==
    \E p \in SourcePackages :
        BuildPromote(p) \/ PinsOpen(p) \/ PinsWrite(p) \/ PinsClose(p)

SpecTwoBuilds == InitTwoBuilds /\ [][NextTwoBuilds]_vars

(***************************************************************************)
(* One invocation of the script that Ctrl-C can interrupt.  No except      *)
(* clause of a phase catches KeyboardInterrupt (they name ValidationError, *)
(* FileNotFoundError, ValueError, IndexError or Exception), so it leaves   *)
(* the phase at the statement that was running, closes the constraints     *)
(* file if the with block of phase_build was open, and reaches the handler *)
(* of main.  A state of the disk at such a point is a record of the venvs, *)
(* the dist directories, root dist/, the constraints file, and the lines   *)
(* in the buffer of the open constraints file.                             *)
(***************************************************************************)
At(vn, ds, pl, pn, buffer) ==
    [venv |-> vn, dist |-> ds, pool |-> pl, pins |-> pn, buffer |-> buffer]

\* the sequences s[1..n]
Prefixes(s) == {SubSeq(s, 1, n) : n \in 0..Len(s)}

\* a directory tree rmtree was removing: bin/python may be gone already
PartlyRemoved(v) == {v, [v EXCEPT !.python = FALSE, !.tools = FALSE]}

\* the points of phase_env
interrupted_env(package) ==
    {At(SetVenv(package, v), dist, pool, pins, <<>>) :
        v \in (IF venv[package].exists THEN PartlyRemoved(venv[package]) ELSE {})
              \cup {NoVenv, [NoVenv EXCEPT !.exists = TRUE],
                    CreatedVenv(package),
                    [CreatedVenv(package) EXCEPT !.tools = TRUE]}}

\* the points of phase_build, with a backend that makes what e says
interrupted_build(package, e) ==
    LET built == BuildOutput(package, e)
        parts == {[exists |-> TRUE, files |-> fs] : fs \in SUBSET built.files}
        dist1 == SetDist(package, built)
        wheels == GlobWheels(built)
        sdists == GlobSdists(built)
        made == [pool EXCEPT !.exists = TRUE]
        before == {At(venv, dist, pool, pins, <<>>)}
        building ==
            {At(venv, SetDist(package, d), pool, pins, <<>>) : d \in {NoDir} \cup parts}
        promoting ==
            IF wheels = {} \/ sdists = {} THEN {}
            ELSE LET wheel_file == CHOOSE f \in wheels : TRUE
                     sdist_file == CHOOSE f \in sdists : TRUE
                     one == [made EXCEPT !.files = @ \cup {wheel_file}]
                     both == [made EXCEPT !.files = @ \cup {wheel_file, sdist_file}]
                 IN  {At(venv, dist1, pl, pins, <<>>) : pl \in {made, one, both}}
                     \cup {At(venv, dist1, both, FileOf(<<>>), b) :
                            b \in UNION {Prefixes(q) : q \in BufferedLines(both)}}
                     \cup {At(venv, dist1, both, generate_constraints(both), <<>>)}
    IN  IF VenvMissing(package) \/ ~venv[package].python
        THEN before
        ELSE before \cup building \cup promoting

\* the points of phase_check: twine and pyroma change nothing on disk
interrupted_check(package) == {At(venv, dist, pool, pins, <<>>)}

\* the points of phase_test: before pip install is done, or in pytest
interrupted_test(package, install_from) ==
    {At(venv, dist, pool, pins, <<>>)}
    \cup IF VenvMissing(package) \/ ~venv[package].python THEN {}
         ELSE {At(SetVenv(package, [venv[package] EXCEPT !.installed = f.name]),
                  dist, pool, pins, <<>>) :
                f \in find_artifact(package, install_from)}

\* the points of phase_clean
interrupted_clean(package) ==
    LET vs == IF venv[package].exists THEN PartlyRemoved(venv[package]) ELSE {}
    IN  {At(SetVenv(package, v), dist, pool, pins, <<>>) : v \in vs \cup {venv[package]}}
        \cup {At(SetVenv(package, NoVenv), SetDist(package, d), pool, pins, <<>>) :
                d \in {dist[package], NoDir}}

\* the handler rolls back what the package's phases created
KeyboardInterruptHandlerCleans(package) ==
    [pc |-> "exited", exit_code |-> <<1>>,
     venv |-> SetVenv(package, NoVenv), dist |-> SetDist(package, NoDir)]

\* except KeyboardInterrupt: print_error(...); sys.exit(1)
KeyboardInterruptHandler(package) ==
    [pc |-> "exited", exit_code |-> <<1>>, venv |-> venv, dist |-> dist]

\* what an --all run that stopped at a failing check or test leaves
KeptVenv == [p \in SourcePackages |-> IF p = <<"foo">> THEN ReadyVenv ELSE NoVenv]

KeptFiles == {Artifact(<<"foo">>, <<"1", ".", "0">>, k) : k \in Kinds}

KeptDist ==
    [p \in SourcePackages |->
        IF p = <<"foo">> THEN [exists |-> TRUE, files |-> KeptFiles] ELSE NoDir]

KeptPool == [exists |-> TRUE, files |-> KeptFiles]

InitInterrupt ==
    /\ \/ /\ venv = [p \in SourcePackages |-> NoVenv]
          /\ dist = [p \in SourcePackages |-> NoDir]
          /\ pool = NoDir
          /\ pins = [exists |-> FALSE, lines |-> {}]
       \/ /\ venv = KeptVenv
          /\ dist = KeptDist
          /\ pool = KeptPool
          /\ pins = generate_constraints(KeptPool)
    /\ args = [package |-> <<"foo">>, phase |-> "env",
               pyroma_threshold |-> 8, install_from |-> "wheel"]
    /\ pc = "idle"
    /\ log = <<>>
    /\ calls = <<>>
    /\ exit_code = <<>>
    /\ runs = 0
    /\ builds = NoBuilds
    /\ release = NoRelease

\* the one invocation
InvokeOnce == runs = 0 /\ Invoke

\* KeyboardInterrupt is raised in the phase that is running
Interrupt ==
    /\ pc = "run"
    /\ \E d \in CASE CurrentPhase = "env" -> interrupted_env(args.package)
                  [] CurrentPhase = "build" ->
                        UNION {interrupted_build(args.package, e) : e \in BuildInputs}
                  [] CurrentPhase = "check" -> interrupted_check(args.package)
                  [] CurrentPhase = "test" ->
                        interrupted_test(args.package, args.install_from)
                  [] CurrentPhase = "clean" -> interrupted_clean(args.package) :
        /\ venv' = d.venv
        /\ dist' = d.dist
        /\ pool' = d.pool
        /\ pins' = d.pins
        /\ builds' = IF d.buffer = <<>> THEN NoBuilds
                     ELSE [serial |-> TRUE, content |-> <<>>,
                           proc |-> (args.package :>
                                        [pc |-> "write", buffer |-> d.buffer,
                                         result |-> <<>>])]
    /\ pc' = "interrupted"
    /\ UNCHANGED <<args, log, calls, exit_code, runs, release>>

\* the exception leaves the with block, if any, and reaches main
HandleInterrupt ==
    /\ pc = "interrupted"
    /\ pins' = IF builds.proc = <<>> THEN pins
               ELSE FileOf(WriteAtStart(builds.content,
                                        builds.proc[args.package].buffer))
    /\ builds' = NoBuilds
    /\ venv' = KeyboardInterruptHandler(args.package).venv
    /\ dist' = KeyboardInterruptHandler(args.package).dist
    /\ pc' = KeyboardInterruptHandler(args.package).pc
    /\ exit_code' = KeyboardInterruptHandler(args.package).exit_code
    /\ UNCHANGED <<pool, args, log, calls, runs, release>>

NextInterrupt ==
    \/ InvokeOnce \/ RunEnv \/ RunBuild \/ RunCheck \/ RunTest \/ RunClean
    \/ Interrupt \/ HandleInterrupt

SpecInterrupt == InitInterrupt /\ [][NextInterrupt]_vars

(***************************************************************************)
(* "Build all packages, then test one":  <package> --env  and then         *)
(* <package> --test, started with root dist/ and the constraints file as   *)
(* earlier build phases left them and with the package's own venv and dist *)
(* directory cleaned or left over.  log keeps the values of both phases.   *)
(***************************************************************************)
\* what build phases can have left in root dist/: of a package at a version
\* nothing, the wheel (the copy of the sdist failed), or both files
PoolsOfEarlierBuilds ==
    {fs \in SUBSET Artifacts :
        \A f \in fs : f.kind = "sdist" => Artifact(f.pkg, f.version, "wheel") \in fs}

InitResume ==
    /\ \/ venv = [p \in SourcePackages |-> NoVenv]
       \/ venv = [p \in SourcePackages |-> ReadyVenv]
    /\ dist = [p \in SourcePackages |-> NoDir]
    /\ \E fs \in PoolsOfEarlierBuilds :
        /\ pool = [exists |-> TRUE, files |-> fs]
        /\ pins = generate_constraints(pool)
    /\ args \in {a \in CommandLines : a.phase = "env" /\ a.package \in SourcePackages}
    /\ pc = "run"
    /\ log = <<>>
    /\ calls = <<>>
    /\ exit_code = <<>>
    /\ runs = 1
    /\ builds = NoBuilds
    /\ release = NoRelease

\* <package> --env
ResumeEnv ==
    /\ pc = "run" /\ log = <<>>
    /\ \E e \in EnvInputs : Finish("env", phase_env(args.package, e))

\* <package> --test, with either value of --install-from
ResumeTest ==
    /\ pc = "exited" /\ Len(log) = 1
    /\ \E k \in Kinds, e \in TestInputs :
        /\ \/ e.first \in find_artifact(args.package, k)
           \/ find_artifact(args.package, k) = {}
        /\ LET out == phase_test(args.package, k, e)
           IN  /\ venv' = out.venv
               /\ dist' = out.dist
               /\ pool' = out.pool
               /\ pins' = out.pins
               /\ calls' = out.calls
               /\ log' = Append(log, [phase |-> "test", result |-> out.result])
               /\ pc' = AfterPhase(out.result, 1).pc
               /\ exit_code' = AfterPhase(out.result, 1).exit_code
        /\ args' = [args EXCEPT !.phase = "test", !.install_from = k]
    /\ runs' = runs + 1
    /\ UNCHANGED <<builds, release>>

NextResume == ResumeEnv \/ ResumeTest

SpecResume == InitResume /\ [][NextResume]_vars

(***************************************************************************)
(* release_packages.py: the packages with unreleased changes are released  *)
(* one after the other with zest.releaser.  main first asks needs_release  *)
(* for every package it was told to process and only then starts the       *)
(* releases; CHANGES.rst is not read again, so what the release tool       *)
(* writes to it does not enter the run.  A CHANGES.rst is a sequence of    *)
(* lines (blank lines left out), each a sequence of tokens.  release holds *)
(* the script's position and lists; attempted and cmds record the calls of *)
(* release_package and the commands it ran.                                *)
(***************************************************************************)
\* the most --package options of a command line
MaxPackageArgs == 2

\* the groups in dependency order
PACKAGE_GROUPS ==
    << [name |-> "Base packages",
        packages |-> <<"odict", "plumber", "webresource", "treibstoff">>],
       [name |-> "Node packages",
        packages |-> <<"node", "node.ext.directory", "node.ext.fs",
                       "node.ext.ldap", "node.ext.ugm", "node.ext.yaml",
                       "node.ext.zodb">>],
       [name |-> "YAFOWIL packages",
        packages |-> <<"yafowil", "yafowil.bootstrap", "yafowil.lingua",
                       "yafowil.webob", "yafowil.yaml", "yafowil.widget.ace",
                       "yafowil.widget.array", "yafowil.widget.autocomplete",
                       "yafowil.widget.chosen", "yafowil.widget.color",
                       "yafowil.widget.cron", "yafowil.widget.datetime",
                       "yafowil.widget.dict", "yafowil.widget.dynatree",
                       "yafowil.widget.image", "yafowil.widget.location",
                       "yafowil.widget.multiselect", "yafowil.widget.richtext",
                       "yafowil.widget.select2", "yafowil.widget.slider",
                       "yafowil.widget.tiptap", "yafowil.widget.wysihtml5">>],
       [name |-> "Cone packages",
        packages |-> <<"cone.tile", "cone.app", "cone.calendar", "cone.charts",
                       "cone.fileupload", "cone.firebase", "cone.ldap",
                       "cone.maps", "cone.sql", "cone.three", "cone.tokens",
                       "cone.ugm", "cone.zodb">>] >>

RECURSIVE PackagesOfGroups(_)
PackagesOfGroups(groups) ==
    IF groups = <<>> THEN <<>>
    ELSE groups[1].packages \o PackagesOfGroups(Tail(groups))

\* the flat list of all packages in release order
ALL_PACKAGES == PackagesOfGroups(PACKAGE_GROUPS)

\* p in s, for a list s
InList(p, s) == \E i \in 1..Len(s) : s[i] = p

RECURSIVE Filter(_, _)
\* [p for p in s if p in keep]
Filter(s, keep) ==
    IF s = <<>> THEN <<>>
    ELSE (IF Head(s) \in keep THEN <<Head(s)>> ELSE <<>>) \o Filter(Tail(s), keep)

\* the tokens \d+\.\d+(?:\.\d+)? matches
VersionNumbers == {"1.0", "1.1"}

\* a line of white space only from token k on
BlankFrom(line, k) == \A i \in k..Len(line) : line[i] = " "

\* ^(\d+\.\d+(?:\.\d+)?)\s+\(unreleased\)\s*\n
UnreleasedHeader(line) ==
    /\ Len(line) >= 3
    /\ line[1] \in VersionNumbers
    /\ line[2] = " "
    /\ line[3] = "(unreleased)"
    /\ BlankFrom(line, 4)

\* -+\s*\n
Underline(line) ==
    \E k \in 1..Len(line) :
        (\A i \in 1..k : line[i] = "-") /\ BlankFrom(line, k + 1)

\* \n\d+\.\d+, the lookahead that ends the section
StartsWithVersion(line) == line # <<>> /\ line[1] \in VersionNumbers

\* ^-\s+\S
Bullet(line) ==
    \E k \in 3..Len(line) :
        /\ line[1] = "-"
        /\ \A i \in 2..(k - 1) : line[i] = " "
        /\ line[k] # " "

\* zest.releaser's NOTHING_CHANGED_YET, "- Nothing changed yet."
NOTHING_CHANGED_YET == <<"-", " ", "Nothing changed yet.">>

\* NOTHING_CHANGED_YET in section_content
HoldsMarker(section) ==
    \E i \in 1..Len(section) :
        \E k \in 1..Len(section[i]) :
            /\ k + 2 <= Len(section[i])
            /\ SubSeq(section[i], k, k + 2) = NOTHING_CHANGED_YET

Least(S) == CHOOSE n \in S : \A m \in S : n <= m

\* The leftmost header "X.Y (unreleased)" with its underline opens the
\* section; it runs to the line before the next one that starts with a
\* version number, or to the end of the file.  The lookahead wants a newline
\* before that version number and the underline's \s*\n has consumed the
\* newlines after the underline, so a version line right after the
\* underline does not end the section: the section then runs on through the
\* released section below it.
parse_changes_rst(package_dir) ==
    LET c == package_dir.changes.lines
        headers == {i \in 1..(Len(c) - 1) :
                        UnreleasedHeader(c[i]) /\ Underline(c[i + 1])}
        at == Least(headers)
        stops == {j \in (at + 3)..Len(c) : StartsWithVersion(c[j])}
        stop == IF stops = {} THEN Len(c) + 1 ELSE Least(stops)
        section_content == SubSeq(c, at + 2, stop - 1)
    IN  IF ~package_dir.changes.exists
        THEN [version |-> <<>>, has_changes |-> FALSE,
              reason |-> "No CHANGES.rst file"]
        ELSE IF headers = {}
        THEN [version |-> <<>>, has_changes |-> FALSE,
              reason |-> "No unreleased section in CHANGES.rst"]
        ELSE IF HoldsMarker(section_content)
        THEN [version |-> <<c[at][1]>>, has_changes |-> FALSE,
              reason |-> "No changes yet"]
        ELSE IF ~\E i \in 1..Len(section_content) : Bullet(section_content[i])
        THEN [version |-> <<c[at][1]>>, has_changes |-> FALSE,
              reason |-> "Unreleased section is empty"]
        ELSE [version |-> <<c[at][1]>>, has_changes |-> TRUE,
              reason |-> "Has unreleased changes"]

NoChangesRst == [exists |-> FALSE, lines |-> <<>>]

ChangesRst(lines) == [exists |-> TRUE, lines |-> lines]

\* sources/<package> does not exist
NoPackageDir == [exists |-> FALSE, changes |-> NoChangesRst]

\* sources/<package> of the packages whose directory the run holds; every
\* other package has none
get_package_dir(dirs, package) ==
    IF package \in DOMAIN dirs THEN dirs[package] ELSE NoPackageDir

needs_release(dirs, package) ==
    LET package_dir == get_package_dir(dirs, package)
    IN  IF ~package_dir.exists
        THEN [version |-> <<>>, has_changes |-> FALSE,
              reason |-> "Package directory not found"]
        ELSE parse_changes_rst(package_dir)

\* a command of zest.releaser run in a package directory
Cmd(package, cmd, ok) == [package |-> package, cmd |-> cmd, ok |-> ok]

\* whether the command is installed, whether the first command returned 0,
\* and whether release and postrelease did
ReleaseOutcomes == [found : BOOLEAN, ok : BOOLEAN, rest_ok : BOOLEAN]

release_package(package, dry_run, no_upload, e) ==
    LET cmd == IF no_upload THEN "prerelease" ELSE "fullrelease"
    IN  IF dry_run THEN [ok |-> TRUE, cmds |-> <<>>]
        ELSE IF ~e.found THEN [ok |-> FALSE, cmds |-> <<>>]
        ELSE IF ~e.ok THEN [ok |-> FALSE, cmds |-> <<Cmd(package, cmd, FALSE)>>]
        ELSE IF no_upload
        THEN [ok |-> TRUE,
              cmds |-> <<Cmd(package, cmd, TRUE),
                         Cmd(package, "release", e.rest_ok),
                         Cmd(package, "postrelease", e.rest_ok)>>]
        ELSE [ok |-> TRUE, cmds |-> <<Cmd(package, cmd, TRUE)>>]

\* the packages to process: those of --package that are known, in the
\* order given, or all of them; less those of --skip
packages(argv) ==
    LET named == IF argv.packages # <<>>
                 THEN Filter(argv.packages,
                             {ALL_PACKAGES[i] : i \in 1..Len(ALL_PACKAGES)})
                 ELSE ALL_PACKAGES
    IN  Filter(named, {named[i] : i \in 1..Len(named)} \ argv.skip_packages)

\* the packages of the list that need release, in its order
to_release(dirs, argv) ==
    Filter(packages(argv),
           {p \in {packages(argv)[i] : i \in 1..Len(packages(argv))} :
                needs_release(dirs, p).has_changes})

\* the packages of the list that do not
skipped(dirs, argv) ==
    Filter(packages(argv),
           {p \in {packages(argv)[i] : i \in 1..Len(packages(argv))} :
                ~needs_release(dirs, p).has_changes})

release_loop_stops_at_failure(r, e) ==
    LET package == r.to_release[Len(r.attempted) + 1]
        done == release_package(package, r.argv.dry_run, r.argv.no_upload, e)
    IN  [r EXCEPT !.attempted = Append(@, package),
                  !.cmds = @ \o done.cmds,
                  !.released = IF done.ok THEN Append(@, package) ELSE @,
                  !.failed = IF done.ok THEN @ ELSE Append(@, package),
                  !.to_release = IF done.ok THEN @
                                 ELSE SubSeq(@, 1, Len(r.attempted) + 1)]

\* one pass of the loop over to_release: the next package is released and
\* put on released or on failed
release_loop(r, e) ==
    LET package == r.to_release[Len(r.attempted) + 1]
        done == release_package(package, r.argv.dry_run, r.argv.no_upload, e)
    IN  [r EXCEPT !.attempted = Append(@, package),
                  !.cmds = @ \o done.cmds,
                  !.released = IF done.ok THEN Append(@, package) ELSE @,
                  !.failed = IF done.ok THEN @ ELSE Append(@, package)]

\* the value main returns after the loop
summary(r) == IF r.failed # <<>> THEN 1 ELSE 0

\* the packages whose directory and CHANGES.rst are varied, one of each
\* group
ReleasePackages == {"odict", "node", "yafowil", "cone.tile"}

Header(version, tag) == <<version, " ", tag>>

ReleasedSection ==
    <<Header("1.0", "(2024-01-01)"), <<"-", "-", "-">>, <<"-", " ", "Initial">>>>

UnreleasedSection(lines) ==
    <<Header("1.1", "(unreleased)"), <<"-", "-", "-">>>> \o lines

\* package directories with an entry under the unreleased header, and with
\* nothing under it, where the section read runs on into the released one
ChangedDirs ==
    {[exists |-> TRUE,
      changes |-> ChangesRst(UnreleasedSection(<<<<"-", " ", "Fix">>>>)
                             \o ReleasedSection)],
     [exists |-> TRUE,
      changes |-> ChangesRst(UnreleasedSection(<<>>) \o ReleasedSection)]}

\* package directories as a release leaves them, without CHANGES.rst,
\* without an unreleased section, and with text but no entry under the
\* header; and no directory
UnchangedDirs ==
    {[exists |-> TRUE,
      changes |-> ChangesRst(UnreleasedSection(<<NOTHING_CHANGED_YET>>)
                             \o ReleasedSection)],
     [exists |-> TRUE, changes |-> NoChangesRst],
     [exists |-> TRUE, changes |-> ChangesRst(ReleasedSection)],
     [exists |-> TRUE,
      changes |-> ChangesRst(UnreleasedSection(<<<<"to", " ", "do">>>>)
                             \o ReleasedSection)],
     NoPackageDir}

\* the --package lists: known packages against the group order, one named
\* twice, and a name that is no package
PackageArgs ==
    UNION {[1..n -> {"node", "odict", "nopackage"}] : n \in 0..MaxPackageArgs}

ReleaseArgs ==
    [packages : PackageArgs, skip_packages : {{}, {"node"}},
     list_only : BOOLEAN, dry_run : BOOLEAN, no_upload : BOOLEAN]

ReleaseDirs ==
    {[p \in ReleasePackages |-> IF p \in S THEN c ELSE u] :
        S \in SUBSET ReleasePackages, c \in ChangedDirs, u \in UnchangedDirs}

InitRelease ==
    /\ venv = [p \in SourcePackages |-> NoVenv]
    /\ dist = [p \in SourcePackages |-> NoDir]
    /\ pool = NoDir
    /\ pins = [exists |-> FALSE, lines |-> {}]
    /\ args = [package |-> <<"foo">>, phase |-> "env",
               pyroma_threshold |-> 8, install_from |-> "wheel"]
    /\ pc = "idle"
    /\ log = <<>>
    /\ calls = <<>>
    /\ exit_code = <<>>
    /\ runs = 0
    /\ builds = NoBuilds
    /\ \E d \in ReleaseDirs, a \in ReleaseArgs :
        release = [NoRelease EXCEPT !.pc = "main", !.dirs = d, !.argv = a]

\* main up to the loop: the packages are checked for unreleased changes;
\* with --list, or with nothing to release, main returns 0
ReleaseCheck ==
    /\ release.pc = "main"
    /\ LET found == to_release(release.dirs, release.argv)
           stop == release.argv.list_only \/ found = <<>>
       IN  release' = [release EXCEPT
                !.to_release = found,
                !.skipped = skipped(release.dirs, release.argv),
                !.pc = IF stop THEN "exited" ELSE "releasing",
                !.exit_code = IF stop THEN <<0>> ELSE <<>>]
    /\ UNCHANGED <<venv, dist, pool, pins, args, pc, log, calls, exit_code,
                   runs, builds>>

\* one pass of the loop; after the last one the summary is printed and
\* main returns
ReleaseNext ==
    /\ release.pc = "releasing"
    /\ \E e \in ReleaseOutcomes :
        LET r == release_loop(release, e)
            last == Len(r.attempted) = Len(r.to_release)
        IN  release' = [r EXCEPT
                !.pc = IF last THEN "exited" ELSE "releasing",
                !.exit_code = IF last THEN <<summary(r)>> ELSE <<>>]
    /\ UNCHANGED <<venv, dist, pool, pins, args, pc, log, calls, exit_code,
                   runs, builds>>

NextRelease == ReleaseCheck \/ ReleaseNext

SpecRelease == InitRelease /\ [][NextRelease]_vars

(***************************************************************************)
(* Properties.                                                             *)
(***************************************************************************)
LastEntry == log[Len(log)]

\* the phase main ran last, and the value it returned
LastWas(phase, result) ==
    log # <<>> /\ LastEntry.phase = phase /\ LastEntry.result = result

AllSucceeded == Len(log) = 5 /\ \A i \in 1..5 : log[i].result = 0

\* C1: in --all mode the phases run in the order env, build, check, test,
\* clean; a phase is started only after every earlier phase of the
\* invocation returned 0, and once a phase has not returned 0 the script has
\* exited without starting another phase, clean included.
C1_AllStrictOrderFailFast ==
    args.phase = "all" =>
        /\ Len(log) <= 5
        /\ \A i \in 1..Len(log) :
            /\ log[i].phase = <<"env", "build", "check", "test", "clean">>[i]
            /\ i < Len(log) => log[i].result = 0
        /\ (log # <<>> /\ LastEntry.result # 0) => pc = "exited"

\* an --all run stopped by a failing check phase: test and clean never ran
C1_Witness ==
    /\ args.phase = "all" /\ pc = "exited"
    /\ Len(log) = 3 /\ LastWas("check", 1)

\* C2 (as stated): every --all invocation exits with 0 when all five phases
\* succeeded and with 1 otherwise, never with 2.
C2_AllExitsZeroOrOne ==
    (pc = "exited" /\ args.phase = "all") =>
        exit_code = IF AllSucceeded THEN <<0>> ELSE <<1>>

\* C2 (amended): an --all invocation for an existing package directory in
\* which no phase is left by an unexpected exception exits with 0 when all
\* five phases succeeded and with 1 otherwise, a phase value of 2 being
\* mapped to 1; with the package directory missing, or a phase left by an
\* unexpected exception, it exits with 2.
C2_AllExitCodes ==
    /\ ExitAll(1) = 1 /\ ExitAll(2) = 1
    /\ (pc = "exited" /\ args.phase = "all") =>
        exit_code =
            IF args.package \notin SourcePackages THEN <<2>>
            ELSE IF LastEntry.result = Raised THEN <<2>>
            ELSE IF AllSucceeded THEN <<0>>
            ELSE <<1>>

\* an --all run that exited with 1 because its build phase failed
C2_Witness ==
    /\ args.phase = "all" /\ pc = "exited" /\ exit_code = <<1>>
    /\ Len(log) = 2 /\ LastWas("build", 1)

\* C3: a standalone invocation runs the selected phase and no other, and
\* exits with the value that phase returned: 0, 1 or 2.
C3_StandaloneExitIsPhaseResult ==
    args.phase # "all" =>
        /\ Len(log) <= 1
        /\ \A i \in 1..Len(log) : log[i].phase = args.phase
        /\ (pc = "exited" /\ args.package \in SourcePackages) =>
            /\ Len(log) = 1
            /\ log[1].result \in {0, 1, 2} => exit_code = <<log[1].result>>

\* a standalone test phase that returned 2, and the script exited with 2
C3_Witness ==
    /\ args.phase = "test" /\ pc = "exited"
    /\ LastWas("test", 2) /\ exit_code = <<2>>

\* C4: when the venv of the package does not exist, the build, check and
\* test phases return 2, run no external command and leave the venvs, the
\* dist directories, root dist/ and the constraints file as they were.
C4_NoVenvIsSetupError ==
    [][(/\ pc = "run"
        /\ CurrentPhase \in {"build", "check", "test"}
        /\ ~venv[args.package].exists)
       => /\ log' = Append(log, [phase |-> CurrentPhase, result |-> 2])
          /\ calls' = <<>>
          /\ UNCHANGED <<venv, dist, pool, pins>>]_vars

\* a check phase returned 2 for a package that has a dist directory and
\* artifacts in root dist/, but no venv
C4_Witness ==
    /\ LastWas("check", 2) /\ calls = <<>>
    /\ ~venv[args.package].exists
    /\ dist[args.package].exists
    /\ pool.files # {}

\* root dist/ holds a distribution of kind k built from package p
PoolHolds(p, k) == \E f \in pool.files : f.pkg = p /\ f.kind = k

\* C5: the test phase returns 2 when the package has no venv, and also when
\* it has one but root dist/ holds no artifact of the requested kind built
\* from the package.
C5_TestSetupError ==
    [][(/\ pc = "run"
        /\ CurrentPhase = "test"
        /\ \/ ~venv[args.package].exists
           \/ ~PoolHolds(args.package, args.install_from))
       => log' = Append(log, [phase |-> "test", result |-> 2])]_vars

\* the test phase returned 2 in a venv, asked for the sdist, while root
\* dist/ holds the wheel of the package only
C5_Witness ==
    /\ LastWas("test", 2)
    /\ venv[args.package].exists
    /\ args.install_from = "sdist"
    /\ PoolHolds(args.package, "wheel")
    /\ ~PoolHolds(args.package, "sdist")

\* C6: the check phase returns 2 when the venv exists and the dist directory
\* of the package does not, and then runs neither twine nor pyroma.
C6_CheckNeedsDist ==
    [][(/\ pc = "run"
        /\ CurrentPhase = "check"
        /\ venv[args.package].exists
        /\ ~dist[args.package].exists)
       => /\ log' = Append(log, [phase |-> "check", result |-> 2])
          /\ calls' = <<>>]_vars

\* the check phase returned 2 in a complete venv without a dist directory
C6_Witness ==
    /\ LastWas("check", 2)
    /\ venv[args.package].tools
    /\ ~dist[args.package].exists

\* the dist directory d lacks the wheel or the sdist, is empty or is missing
Incomplete(d) ==
    \/ ~d.exists
    \/ ~\E f \in d.files : f.kind = "wheel"
    \/ ~\E f \in d.files : f.kind = "sdist"

\* C7: when the build backend exits successfully and the dist directory it
\* leaves is missing, empty or lacks the wheel or the sdist, the build phase
\* returns 1 and root dist/ and the constraints file stay as they were.
C7_IncompleteBuildFails ==
    [][(/\ pc = "run"
        /\ CurrentPhase = "build"
        /\ calls' = <<Call("build", TRUE)>>
        /\ Incomplete(dist'[args.package]))
       => /\ log' = Append(log, [phase |-> "build", result |-> 1])
          /\ pool' = pool
          /\ pins' = pins]_vars

\* the backend succeeded and left a wheel without an sdist; the phase
\* returned 1
C7_Witness ==
    /\ LastWas("build", 1)
    /\ calls = <<Call("build", TRUE)>>
    /\ \E f \in dist[args.package].files : f.kind = "wheel"
    /\ ~\E f \in dist[args.package].files : f.kind = "sdist"

\* the name a requirement line uses for package p
PinName(p) == Replace(Replace(p, ".", "-"), "_", "-")

\* the line name==version of a distribution
PinOf(f) == PinName(f.pkg) \o <<"==">> \o f.version

\* C8: right after a build phase that returned 0 the lines of the
\* constraints file are exactly the name==version pairs of the wheels in
\* root dist/.
C8_PinsMatchPool ==
    LastWas("build", 0) =>
        /\ pins.exists
        /\ pins.lines = {PinOf(f) : f \in {g \in pool.files : g.kind = "wheel"}}

\* two packages built one after the other: the file pins both
C8_Witness ==
    /\ LastWas("build", 0)
    /\ \A p \in SourcePackages : \E v \in Versions :
        PinName(p) \o <<"==">> \o v \in pins.lines

\* every distribution in root dist/ was promoted together with the one of
\* the other kind: no copy into root dist/ has failed half-way
PromotedInPairs ==
    \A f \in pool.files : \E g \in pool.files :
        g.pkg = f.pkg /\ g.version = f.version /\ g.kind # f.kind

\* C9 (as stated): after a build phase that returned 0, also when it rebuilt
\* a package at another version, each package name has at most one line in
\* the constraints file, and the package just built is pinned at the version
\* just built.
C9_OneLinePerPackage ==
    (LastWas("build", 0) /\ PromotedInPairs) =>
        /\ \A l1, l2 \in pins.lines :
            Split(l1, "==")[1] = Split(l2, "==")[1] => l1 = l2
        /\ \A f \in dist[args.package].files : f.kind = "wheel" => PinOf(f) \in pins.lines

\* C10: no step of any invocation removes a file from root dist/ or removes
\* the directory.
C10_PoolNeverShrinks ==
    [][/\ pool.files \subseteq pool'.files
       /\ pool.exists => pool'.exists]_vars

\* a clean phase has run while root dist/ holds the artifacts of two packages
C10_Witness ==
    /\ LastWas("clean", 0)
    /\ \A p \in SourcePackages : PoolHolds(p, "wheel") /\ PoolHolds(p, "sdist")

\* C11: a clean phase for a package leaves root dist/ and the constraints
\* file as they were, and changes no venv and no dist directory but those of
\* that package.
C11_CleanFrame ==
    [][(pc = "run" /\ CurrentPhase = "clean")
       => /\ pool' = pool
          /\ pins' = pins
          /\ \A q \in SourcePackages \ {args.package} :
                venv'[q] = venv[q] /\ dist'[q] = dist[q]]_vars

\* a clean phase removed the venv of its package while the constraints file
\* has lines and another package has a venv
C11_Witness ==
    /\ LastWas("clean", 0)
    /\ ~venv[args.package].exists
    /\ pins.lines # {}
    /\ \E q \in SourcePackages \ {args.package} : venv[q].exists

\* C12: the clean phase returns 0 in every state; with neither a venv nor a
\* dist directory it changes nothing, and a removal that fails leaves the
\* directory in place without changing the return value.
C12_CleanAlwaysSucceeds ==
    [][(pc = "run" /\ CurrentPhase = "clean")
       => /\ log' = Append(log, [phase |-> "clean", result |-> 0])
          /\ (~venv[args.package].exists /\ ~dist[args.package].exists)
                => UNCHANGED <<venv, dist, pool, pins>>]_vars

\* a clean phase returned 0 although it could not remove the venv
C12_Witness ==
    /\ LastWas("clean", 0)
    /\ venv[args.package].exists
    /\ ~dist[args.package].exists

\* C13: after an env phase that returned 0 the package has one venv, with
\* the tools and nothing else installed, whatever was there before; a second
\* env phase in a row gives the same venv as the first.
C13_EnvTwiceFresh ==
    LastWas("env", 0) =>
        venv[args.package] =
            [exists |-> TRUE, python |-> TRUE, tools |-> TRUE, installed |-> NoFile]

\* two env phases in a row both returned 0
C13_Witness ==
    /\ Len(log) = 2 /\ log[1].result = 0 /\ log[2].result = 0
    /\ venv[args.package].exists /\ venv[args.package].tools

\* C14: the installation of a package in its venv changes only in a phase
\* for that package: a test phase sets it to a file of root dist/, an env or
\* clean phase to nothing; build and check never touch it, and an env phase
\* that ran to its return leaves nothing of it.
C14_InstalledOnlyByTest ==
    [][/\ \A p \in SourcePackages :
            venv'[p].installed # venv[p].installed =>
                /\ pc = "run" /\ p = args.package
                /\ \/ /\ CurrentPhase = "test"
                      /\ venv'[p].installed \in {f.name : f \in pool.files}
                   \/ /\ CurrentPhase \in {"env", "clean"}
                      /\ venv'[p].installed = NoFile
       /\ (pc = "run" /\ CurrentPhase = "env" /\ log'[Len(log')].result # Raised)
            => venv'[args.package].installed = NoFile]_vars

\* a test phase has installed the package from a file of root dist/
C14_Witness ==
    /\ LastWas("test", 0)
    /\ venv[args.package].installed \in {f.name : f \in pool.files}

\* the last phase was a check phase that got as far as running pyroma
CheckRanPyroma ==
    /\ log # <<>> /\ LastEntry.phase = "check"
    /\ Len(calls) = 2 /\ calls[2].tool = "pyroma"

\* pyroma printed the line  Final rating: n/10
ReportedRating(n) ==
    \E i \in 1..Len(calls[2].stdout) : calls[2].stdout[i] = RatingLine(n)

\* C15 (as stated): a check phase whose pyroma run printed a rating below
\* the threshold returns 1, whether pyroma exited with an error or not.
C15_LowRatingFails ==
    (CheckRanPyroma /\ \E n \in 0..10 : n < args.pyroma_threshold /\ ReportedRating(n))
        => LastEntry.result = 1

\* C16: a check phase whose pyroma run printed a rating greater than or
\* equal to the threshold returns 0; a rating equal to the threshold passes.
C16_RatingAtThresholdPasses ==
    (CheckRanPyroma /\ \E n \in 0..10 : n >= args.pyroma_threshold /\ ReportedRating(n))
        => LastEntry.result = 0

\* the rating 8 passed the threshold 8
C16_Witness ==
    /\ CheckRanPyroma /\ calls[2].ok
    /\ args.pyroma_threshold = 8 /\ ReportedRating(8)
    /\ LastEntry.result = 0

\* C17: a check phase whose pyroma run printed no rating line returns 0,
\* for every threshold.
C17_NoRatingPasses ==
    (CheckRanPyroma /\ \A n \in 0..10 : ~ReportedRating(n))
        => LastEntry.result = 0

\* pyroma printed a rating field that is no number, the threshold is 8, and
\* the phase returned 0
C17_Witness ==
    /\ CheckRanPyroma /\ calls[2].ok
    /\ args.pyroma_threshold = 8
    /\ \E i \in 1..Len(calls[2].stdout) :
        Contains(calls[2].stdout[i], <<"n/a", "/10">>)
    /\ LastEntry.result = 0

\* C18: a check phase whose pyroma run exited with an error, without having
\* printed a rating below the threshold, returns 0.
C18_PyromaErrorIsLenient ==
    (/\ CheckRanPyroma /\ ~calls[2].ok
     /\ ~\E n \in 0..10 : n < args.pyroma_threshold /\ ReportedRating(n))
        => LastEntry.result = 0

\* pyroma failed without printing a rating and the phase returned 0
C18_Witness ==
    /\ CheckRanPyroma /\ ~calls[2].ok
    /\ \A n \in 0..10 : ~ReportedRating(n)
    /\ LastEntry.result = 0

\* C19: a check phase whose twine check failed returns 1 and runs nothing
\* after it; pyroma is only ever run right after a twine check that passed in
\* the same phase.
C19_TwineShortCircuits ==
    /\ \A i \in 1..Len(calls) : calls[i].tool = "pyroma" =>
            /\ i > 1
            /\ \E j \in 1..(i - 1) : calls[j] = Call("twine", TRUE)
            /\ \A j \in 1..(i - 1) : calls[j] # Call("twine", FALSE)
    /\ (\E i \in 1..Len(calls) : calls[i] = Call("twine", FALSE)) =>
            /\ LastWas("check", 1)
            /\ \A i \in 1..Len(calls) : calls[i].tool # "pyroma"

\* twine check failed in a check phase, which stopped there and returned 1
C19_Witness ==
    /\ LastWas("check", 1)
    /\ calls = <<Call("twine", FALSE)>>

\* the test phase of an --all run has installed an artifact, two phases after
\* the build phase of the same run succeeded
TestedAfterBuild ==
    /\ args.phase = "all" /\ log # <<>> /\ LastEntry.phase = "test"
    /\ calls # <<>> /\ calls[1] = Call("pip_install", TRUE)

\* the files of the requested kind that the build of this run left in the
\* package's dist/ and promoted
JustBuilt ==
    {f \in dist[args.package].files :
        f.pkg = args.package /\ f.kind = args.install_from}

\* the pool's artifacts of the tested package and the requested kind
Candidates ==
    {f \in pool.files : f.pkg = args.package /\ f.kind = args.install_from}

PoolWheelVersions(p) ==
    {f.version : f \in {g \in pool.files : g.pkg = p /\ g.kind = "wheel"}}

\* C21: when the test phase of an --all run for a package has installed the
\* package, and root dist/ holds the wheel of a package it requires at one
\* version, the only distribution pip may install for that requirement is
\* the one of root dist/ at that version; no release of the index is
\* allowed, because the constraints file pins the requirement to it.
C21_DependencyFromPool ==
    TestedAfterBuild =>
        \A q \in Requires(args.package) :
            Cardinality(PoolWheelVersions(q)) = 1 =>
                /\ PinOf(Artifact(q, CHOOSE v \in PoolWheelVersions(q) : TRUE, "wheel"))
                        \in pins.lines
                /\ PipCandidates(q, pool, pins) =
                        {[version |-> v, origin |-> "find-links"] :
                            v \in PoolWheelVersions(q)}

\* foo was built and installed for its tests after n.x was built; the index
\* has a release of n.x
C21_Witness ==
    /\ TestedAfterBuild /\ LastEntry.result = 0
    /\ args.package = <<"foo">>
    /\ Cardinality(PoolWheelVersions(<<"n", ".", "x">>)) = 1
    /\ PublishedVersions # {}
    /\ \E c \in PipCandidates(<<"n", ".", "x">>, pool, pins) : c.origin = "find-links"

\* C22: an --all run whose check phase did not return 0 has run no phase
\* after it and has exited with 1, and the venv of the package and its dist
\* directory with the wheel and the sdist of that run are still there.
C22_CheckFailureKeepsOutput ==
    (args.phase = "all" /\ Len(log) >= 3 /\ log[3].result # 0) =>
        /\ Len(log) = 3
        /\ pc = "exited" /\ exit_code = <<1>>
        /\ venv[args.package].exists /\ venv[args.package].tools
        /\ dist[args.package].exists
        /\ \A k \in Kinds : \E f \in dist[args.package].files :
                f.pkg = args.package /\ f.kind = k

\* an --all run stopped by a pyroma rating below the threshold
C22_Witness ==
    /\ args.phase = "all" /\ pc = "exited" /\ exit_code = <<1>>
    /\ CheckRanPyroma /\ LastEntry.result = 1
    /\ dist[args.package].files # {}

\* an --all run has exited with 0
AllExitedZero == args.phase = "all" /\ pc = "exited" /\ exit_code = <<0>>

\* root dist/ holds the wheel and the sdist of package p at one version, and
\* the constraints file holds the line of that version
PromotedAndPinned(p) ==
    \E v \in Versions :
        /\ Artifact(p, v, "wheel") \in pool.files
        /\ Artifact(p, v, "sdist") \in pool.files
        /\ PinOf(Artifact(p, v, "wheel")) \in pins.lines

\* C23 (as stated): after an --all run that exited with 0 the venv and the
\* dist directory of the package do not exist, root dist/ holds the wheel
\* and the sdist of the package and the constraints file holds its line.
C23_AllSuccessRemoves ==
    AllExitedZero =>
        /\ ~venv[args.package].exists
        /\ ~dist[args.package].exists
        /\ PromotedAndPinned(args.package)

\* C23 (amended): after an --all run that exited with 0, the venv of the
\* package does not exist unless its removal failed, the dist directory of
\* the package does not exist unless its removal failed, root dist/ holds
\* the wheel and the sdist of the package and the constraints file holds its
\* line.
C23_AllSuccessRemovesUnlessFailed ==
    AllExitedZero =>
        /\ Call("rmtree_venv", FALSE) \notin {calls[i] : i \in 1..Len(calls)}
                => ~venv[args.package].exists
        /\ Call("rmtree_dist", FALSE) \notin {calls[i] : i \in 1..Len(calls)}
                => ~dist[args.package].exists
        /\ PromotedAndPinned(args.package)

\* an --all run exited with 0 after removing the venv, with the dist
\* directory left behind by a removal that failed
C23_Witness ==
    /\ AllExitedZero
    /\ calls = <<Call("rmtree_venv", TRUE), Call("rmtree_dist", FALSE)>>
    /\ ~venv[args.package].exists
    /\ dist[args.package].exists
    /\ PromotedAndPinned(args.package)

\* both build phases have returned 0
BothBuilt ==
    \A p \in DOMAIN builds.proc :
        builds.proc[p].pc = "done" /\ builds.proc[p].result = <<0>>

\* a wheel of root dist/ has no line in the constraints file
PinsLackAWheel ==
    \E f \in pool.files : f.kind = "wheel" /\ PinOf(f) \notin pins.lines

\* C24: two build phases that both returned 0 can leave a constraints file
\* that is not the one generated from the wheels of root dist/, a wheel
\* lacking its line (C24_Witness), and they leave one only when the driver
\* did not serialize them: after serialized builds no such state is reached.
C24_InconsistentOnlyIfConcurrent ==
    (/\ builds.proc # <<>> /\ BothBuilt
     /\ PinsLackAWheel \/ pins # generate_constraints(pool))
        => ~builds.serial

\* two build phases that overlapped have both returned 0, and the
\* constraints file lacks the line of a wheel that is in root dist/
C24_Witness ==
    /\ builds.proc # <<>> /\ BothBuilt
    /\ \A p \in SourcePackages : PoolHolds(p, "wheel")
    /\ PinsLackAWheel

\* C25 (as stated): once a phase is interrupted the script exits with 1
\* without a phase returning, and the venvs, the dist directories, root dist/
\* and the constraints file are at exit exactly as at the interruption.
C25_InterruptKeepsEverything ==
    [][pc = "interrupted" =>
        /\ pc' = "exited" /\ exit_code' = <<1>>
        /\ log' = log
        /\ UNCHANGED <<venv, dist, pool, pins>>]_vars

\* C25 (amended): an interrupt leaves the running phase without a value,
\* the script exits with 1 and no further phase runs; the venvs, the dist
\* directories and root dist/ are at exit exactly as at the interruption,
\* and so is the constraints file, except that an interrupt inside the loop
\* that writes it leaves the lines written so far in the file, which was
\* empty at the interruption.
C25_InterruptNoRollback ==
    [][/\ (pc = "run" /\ pc' = "interrupted") => log' = log
       /\ pc = "interrupted" =>
            /\ pc' = "exited" /\ exit_code' = <<1>>
            /\ log' = log
            /\ UNCHANGED <<venv, dist, pool>>
            /\ pins' = IF builds.proc = <<>> THEN pins
                       ELSE [exists |-> TRUE,
                             lines |-> pins.lines \cup
                                {builds.proc[args.package].buffer[i] :
                                    i \in 1..Len(builds.proc[args.package].buffer)}]
       /\ (pc = "exited" /\ exit_code = <<1>>) =>
            UNCHANGED <<venv, dist, pool, pins, log>>]_vars

\* an --all run was interrupted in its build phase after the copies and the
\* truncation of the constraints file: it exited with 1 after env alone had
\* returned, and the venv, the build output and the new files of root dist/
\* are all still there
C25_Witness ==
    /\ args.phase = "all" /\ pc = "exited" /\ exit_code = <<1>>
    /\ Len(log) = 1 /\ LastWas("env", 0)
    /\ venv[args.package].tools
    /\ dist[args.package].files # {}
    /\ dist[args.package].files \subseteq pool.files
    /\ pins.exists /\ pins.lines = {}

\* C26: right after a build phase that returned 0 the dist directory of the
\* package still holds the wheel and the sdist that were copied to root
\* dist/, and a check phase run next does not return 2, whatever twine and
\* pyroma do; in an --all run the check phase never returns 2.
C26_BuildCopiesNotMoves ==
    /\ LastWas("build", 0) =>
        /\ dist[args.package].exists
        /\ \A k \in Kinds : \E f \in dist[args.package].files :
                f.pkg = args.package /\ f.kind = k
        /\ dist[args.package].files \subseteq pool.files
        /\ \A e \in CheckInputs, t \in Thresholds :
                phase_check(args.package, t, e).result \in {0, 1}
    /\ (args.phase = "all" /\ Len(log) >= 3) => log[3].result \in {0, 1}

\* the check phase of an --all run passed on the dist directory the build
\* phase left
C26_Witness ==
    /\ args.phase = "all" /\ Len(log) = 3
    /\ log[2].result = 0 /\ LastWas("check", 0)
    /\ \A k \in Kinds : \E f \in dist[args.package].files : f.kind = k

\* C27: a build phase that gets as far as running the backend leaves in
\* the dist directory of the package only what this run of the backend made
\* (at most one file of each kind, all of one version), whatever the
\* directory held before; if it held a wheel and an sdist and the backend
\* now makes nothing, the phase returns 1 and copies nothing to root dist/.
C27_StaleOutputRemoved ==
    [][(pc = "run" /\ CurrentPhase = "build" /\ calls' # <<>>) =>
        /\ \A f, g \in dist'[args.package].files :
                /\ f.version = g.version
                /\ f.kind = g.kind => f = g
        /\ (~Incomplete(dist[args.package]) /\ dist'[args.package].files = {}) =>
                /\ log' = Append(log, [phase |-> "build", result |-> 1])
                /\ pool' = pool
                /\ pins' = pins
        /\ log'[Len(log')].result = 0 =>
                pool'.files \ pool.files \subseteq dist'[args.package].files]_vars

\* a build phase was run again in a venv for a package whose artifacts are
\* in root dist/; the backend exited with 0 and made nothing, the phase
\* returned 1 and the dist directory holds no file
C27_Witness ==
    /\ args.phase = "build" /\ LastWas("build", 1)
    /\ calls = <<Call("build", TRUE)>>
    /\ dist[args.package].files = {}
    /\ PoolHolds(args.package, "wheel") /\ PoolHolds(args.package, "sdist")

\* C28: after an env phase that returned 0, a test phase for the same
\* package does not return 2 (and is not left by an exception) whenever root
\* dist/ holds an artifact of the package of the requested kind, although no
\* build phase has run since and the package has no dist directory.
C28_TestResumesFromPool ==
    (/\ Len(log) = 2 /\ log[1] = [phase |-> "env", result |-> 0]
     /\ log[2].phase = "test"
     /\ PoolHolds(args.package, args.install_from))
        => /\ log[2].result \in {0, 1}
           /\ calls # <<>> /\ calls[1].tool = "pip_install"

\* env and then test succeeded for a package without a dist directory, on
\* an sdist that an earlier build left in root dist/
C28_Witness ==
    /\ Len(log) = 2 /\ log[1] = [phase |-> "env", result |-> 0]
    /\ LastWas("test", 0)
    /\ args.install_from = "sdist"
    /\ ~dist[args.package].exists
    /\ venv[args.package].installed \in {f.name : f \in pool.files}

\* C29: the venv and the dist directory of a package change only in a
\* phase the script runs for that package; a phase run for another package
\* leaves them as they are.
C29_OtherPackagesUntouched ==
    [][\A q \in SourcePackages :
        (venv'[q] # venv[q] \/ dist'[q] # dist[q]) =>
            pc = "run" /\ q = args.package]_vars

\* a phase for one package has created its venv while another package has a
\* venv and a dist directory with its artifacts from an earlier run
C29_Witness ==
    /\ LastWas("env", 0) /\ venv[args.package].tools
    /\ \E q \in SourcePackages \ {args.package} :
        /\ venv[q].tools
        /\ dist[q].exists /\ dist[q].files # {}

\* C30 (as stated): a build phase that returns 1 or 2 leaves the files of
\* root dist/ and the constraints file as they were before it.
C30_FailedBuildChangesNothing ==
    [][(/\ pc = "run" /\ CurrentPhase = "build"
        /\ log'[Len(log')].result \in {1, 2})
       => /\ pool'.files = pool.files
          /\ pins' = pins]_vars

\* C31 (as stated): a build phase for a package whose venv is not the work
\* of an env phase that returned 0 (it is missing, or was left without
\* python or without the tools by an env phase that failed) returns 2 and
\* does not run the build backend.
C31_BuildNeedsSuccessfulEnv ==
    [][(/\ pc = "run" /\ CurrentPhase = "build"
        /\ ~venv[args.package].tools)
       => /\ log' = Append(log, [phase |-> "build", result |-> 2])
          /\ calls' = <<>>]_vars

\* the packages of ALL_PACKAGES for which needs_release says yes
NeedingRelease ==
    {p \in {ALL_PACKAGES[i] : i \in 1..Len(ALL_PACKAGES)} :
        needs_release(release.dirs, p).has_changes}

\* the release of the package at place i of attempted failed
FailedAt(i) == InList(release.attempted[i], release.failed)

\* C32 (as stated): when no --package is given, the release script has, by
\* the time it exits, attempted every package that needs release exactly
\* once and in the order of ALL_PACKAGES (base, node, yafowil, cone), also
\* after a release failed; and it returns 1 if a release failed and 0 if
\* none did.
C32_AttemptsAllNeedingRelease ==
    release.pc = "exited" =>
        /\ release.argv.packages = <<>>
            => release.attempted = Filter(ALL_PACKAGES, NeedingRelease)
        /\ release.exit_code = <<IF release.failed # <<>> THEN 1 ELSE 0>>

\* C32 (amended): when no --package is given, the release script has, by
\* the time it exits, attempted nothing if --list was given, and otherwise
\* every package that needs release and is not named by --skip, exactly
\* once and in the order of ALL_PACKAGES, also after a release failed; every
\* attempt is counted as released or as failed, with --dry-run no command
\* is run and no attempt fails; and the script returns 1 if a release
\* failed and 0 if none did.
C32_AttemptsAllProcessedNeedingRelease ==
    release.pc = "exited" =>
        /\ (release.argv.packages = <<>> /\ release.argv.list_only)
            => release.attempted = <<>>
        /\ (release.argv.packages = <<>> /\ ~release.argv.list_only)
            => release.attempted =
                    Filter(ALL_PACKAGES,
                           NeedingRelease \ release.argv.skip_packages)
        /\ Len(release.released) + Len(release.failed)
                = Len(release.attempted)
        /\ release.argv.dry_run
            => release.cmds = <<>> /\ release.failed = <<>>
        /\ release.exit_code = <<IF release.failed # <<>> THEN 1 ELSE 0>>

\* no --package: node needs release and is skipped, the release of the
\* first package failed, a later package was released, and the script
\* returned 1
C32_Witness ==
    /\ release.pc = "exited"
    /\ release.argv.packages = <<>> /\ ~release.argv.list_only
    /\ "node" \in NeedingRelease \cap release.argv.skip_packages
    /\ Len(release.attempted) >= 2
    /\ FailedAt(1)
    /\ InList(release.attempted[2], release.released)
    /\ release.exit_code = <<1>>

====
